---- MODULE Spec2Model ----
(***************************************************************************)
(* Model of src/scrap.js: the keyword scraper (lines 1-178) and the reply  *)
(* dispatcher (lines 180-385).  Each script is a sequential async program; *)
(* every awaited browser call is a point where the call may reject.        *)
(*                                                                         *)
(* A URL (href) is a sequence of tokens: the origin, "/" separators, path  *)
(* segments and one token per decimal digit, e.g.                          *)
(*   << "https://x.com", "/", "alice", "/", "status", "/", "1","0","3" >>  *)
(***************************************************************************)
EXTENDS Integers, Sequences, FiniteSets, TLC

VARIABLES
  script,        \* which of the two scripts of scrap.js runs
  pc,            \* position of the script
  exitCode,      \* process exit code, -1 while running
  authFile,      \* auth.json on disk
  tweetsFile,    \* tweets_to_reply.txt on disk
  tweetsFile0,   \* history: tweets_to_reply.txt as it was at process start
  commentsFile,  \* comments.txt on disk
  browser,       \* "none" | "open" | "closed"
  initCalls,     \* history: calls of initializeBrowser
  writes,        \* history: calls of fs.writeFileSync
  \* ---- scraper
  targetKeywords, keywords, kwIdx,
  tweetUrlSet, lastHeight, scrollTries, allUrls,
  urls,          \* the array scrapeUrlsForKeyword returned last (main, line 162)
  iters,         \* history: loop iterations of this keyword while stalledOnly
  stalledOnly,   \* history: every re-measured extent so far equalled lastHeight
  kwLog,         \* history: one record per keyword whose scrape has ended
  navigated,     \* history: the keyword of each search navigation (page.goto)
  scrolled,      \* history: the latest loop iteration went on to scroll
  threwAt,       \* history: the step whose rejection nothing caught
  \* ---- dispatcher
  tweetUrls, cannedComments, itemIdx, replyText,
  openPages,     \* per-item pages that are open
  tweetId,       \* match[1] of the current item
  clicked,       \* result of clickReplyButtonByLabel
  candidates,    \* the candidate elements clickReplyButtonByLabel scanned
  clickedAt,     \* history: position of the element it clicked, 0 for none
  replyDelay,    \* main's replyDelay while the pause runs, 0 otherwise
  pauses,        \* history: pauses that have elapsed
  item,          \* history of the current replyToTweet call
  invoked,       \* history: the tweetUrl of each replyToTweet call
  outcomes       \* history: the value each replyToTweet call returned

envVars == << script, authFile, tweetsFile, tweetsFile0, commentsFile,
              browser, initCalls, writes >>
sVars == << targetKeywords, keywords, kwIdx, tweetUrlSet, lastHeight, scrollTries,
            allUrls, urls, iters, stalledOnly, kwLog, navigated, scrolled, threwAt >>
dVars == << tweetUrls, cannedComments, itemIdx, replyText, openPages, tweetId,
            clicked, item, invoked, outcomes, candidates, clickedAt, replyDelay,
            pauses >>
vars == << pc, exitCode, envVars, sVars, dVars >>

-----------------------------------------------------------------------------
(* Bounds of the model *)

NumWindows == 2      \* distinct windows of the search feed a page can render
WindowLen == 56      \* tweets rendered in one window
WindowStride == 48   \* distance between the starts of consecutive windows
NumHeights == 2      \* distinct values document.body.scrollHeight can take
MaxItems == 2        \* lines of tweets_to_reply.txt in the dispatcher's inputs
RandomDenominator == 65536  \* Math.random() yields r / RandomDenominator, 0 <= r < it
RandomSamples == 4   \* values of Math.random() that are tried, 0 and the largest included

(* Program constants *)

maxTweetsPerKeyword == 100
maxScrollTries == 20

-----------------------------------------------------------------------------
(* Sequences used as JS arrays and insertion-ordered Sets *)

Range(s) == { s[i] : i \in 1..Len(s) }

\* xs.forEach(x => set.add(x)) on an insertion-ordered Set: the elements of xs
\* that the Set does not hold and that have not occurred earlier in xs are
\* appended, in the order of xs
AddAll(s, xs) ==
  LET had == Range(s)
      added == SelectSeq([ i \in 1..Len(xs) |-> i ],
                         LAMBDA i : xs[i] \notin had /\ \A j \in 1..(i-1) : xs[j] # xs[i])
  IN s \o [ k \in 1..Len(added) |-> xs[added[k]] ]

\* Array.prototype.slice(0, n)
SliceNoCut(s, n) == s
Slice(s, n) == IF Len(s) <= n THEN s ELSE SubSeq(s, 1, n)

NoDuplicates(s) == Cardinality(Range(s)) = Len(s)

-----------------------------------------------------------------------------
(* URLs *)

DigitChar == << "0", "1", "2", "3", "4", "5", "6", "7", "8", "9" >>
Digits == Range(DigitChar)

\* decimal digits of n, 100 <= n <= 999
DigitsOf(n) == << DigitChar[(n \div 100) + 1], DigitChar[((n \div 10) % 10) + 1],
                  DigitChar[(n % 10) + 1] >>

TweetHref(i) == << "https://x.com", "/", "alice", "/", "status", "/" >> \o DigitsOf(100 + i)
PhotoHref(i) == TweetHref(i) \o << "/", "photo", "/", "1" >>
AnalyticsHref(i) == TweetHref(i) \o << "/", "analytics" >>
QueryHref(i) == TweetHref(i) \o << "?", "s=20" >>
WebHref(i) == << "https://x.com", "/", "i", "/", "web", "/", "status", "/" >> \o DigitsOf(100 + i)
OtherHostHref(i) == << "https://t.co", "/", "alice", "/", "status", "/" >> \o DigitsOf(100 + i)
ProfileHref == << "https://x.com", "/", "alice" >>

\* CSS attribute selector a[href*="/status/"]
HasStatusPath(h) ==
  \E k \in 1..Len(h) : k + 2 <= Len(h) /\ h[k] = "/" /\ h[k+1] = "status" /\ h[k+2] = "/"

\* /^https:\/\/x\.com\/[^\/]+\/status\/\d+$/.test(href), matched left to right
TweetUrlTestNoAnchor(h) ==
  /\ Len(h) >= 7
  /\ h[1] = "https://x.com" /\ h[2] = "/"
  /\ \E k \in 4..Len(h) :
       /\ \A j \in 3..(k-1) : h[j] # "/"
       /\ k + 3 <= Len(h)
       /\ h[k] = "/" /\ h[k+1] = "status" /\ h[k+2] = "/"
       /\ h[k+3] \in Digits
TweetUrlTest(h) ==
  /\ Len(h) >= 7
  /\ h[1] = "https://x.com" /\ h[2] = "/"
  /\ \E k \in 4..Len(h) :
       /\ \A j \in 3..(k-1) : h[j] # "/"
       /\ k + 3 <= Len(h)
       /\ h[k] = "/" /\ h[k+1] = "status" /\ h[k+2] = "/"
       /\ \A j \in (k+3)..Len(h) : h[j] \in Digits

\* Array.from(allUrls).join('\n')
RECURSIVE JoinLines(_)
JoinLines(s) ==
  IF Len(s) = 0 THEN << >>
  ELSE IF Len(s) = 1 THEN s[1]
  ELSE LET m == Len(s) \div 2
       IN JoinLines(SubSeq(s, 1, m)) \o << "\n" >> \o JoinLines(SubSeq(s, m + 1, Len(s)))

-----------------------------------------------------------------------------
(* The rendered search page *)

\* tweets of window w (w = 0: the page renders no tweet)
WindowTweets(w) ==
  IF w = 0 THEN << >>
  ELSE [ i \in 1..WindowLen |-> (w - 1) * WindowStride + i ]

\* the anchors inside article elements, in document order: per tweet its
\* permalink, and for some tweets a photo, analytics or other link as well
TweetLinks(i) ==
  LET extra == CASE i % 8 = 0 -> << PhotoHref(i) >>
                 [] i % 8 = 1 -> << AnalyticsHref(i), TweetHref(i) >>
                 [] i % 8 = 2 -> << WebHref(i) >>
                 [] i % 8 = 3 -> << OtherHostHref(i), QueryHref(i) >>
                 [] OTHER -> << ProfileHref >>
  IN << TweetHref(i) >> \o extra

RECURSIVE ArticleLinks(_)
ArticleLinks(ts) ==
  IF Len(ts) = 0 THEN << >>
  ELSE IF Len(ts) = 1 THEN TweetLinks(ts[1])
  ELSE LET m == Len(ts) \div 2
       IN ArticleLinks(SubSeq(ts, 1, m)) \o ArticleLinks(SubSeq(ts, m + 1, Len(ts)))

\* page.$$eval('article a[href*="/status/"]', links => Array.from(new Set(
\*     links.map(link => link.href).filter(href => regex.test(href)))))
ExtractUrls(w) ==
  LET links == SelectSeq(ArticleLinks(WindowTweets(w)), HasStatusPath)
  IN AddAll(<< >>, SelectSeq(links, TweetUrlTest))

\* what the extraction yields for each thing the page can render
Extracted == [ w \in 0..NumWindows |-> ExtractUrls(w) ]

Heights == 1..NumHeights
Windows == 0..NumWindows

-----------------------------------------------------------------------------
(* Files *)

NoFile == [ exists |-> FALSE, text |-> << >> ]
File(t) == [ exists |-> TRUE, text |-> t ]

\* auth.json: missing, not JSON, the JSON value null, or an object whose
\* auth_token / ct0 are a non-empty string or absent ("")
AuthFiles ==
  { [ exists |-> FALSE, json |-> "none", auth_token |-> "", ct0 |-> "" ],
    [ exists |-> TRUE, json |-> "malformed", auth_token |-> "", ct0 |-> "" ],
    [ exists |-> TRUE, json |-> "null", auth_token |-> "", ct0 |-> "" ] }
  \cup [ exists : {TRUE}, json : {"object"}, auth_token : {"", "tok"}, ct0 : {"", "csrf"} ]

\* JSON.parse(fs.readFileSync(authFilePath)) throws
ParseThrows(a) == a.json = "malformed"
\* authData.auth_token throws a TypeError
FieldAccessThrows(a) == a.json = "null"
\* !authData.auth_token || !authData.ct0
TokensMissingNoCt0(a) == a.auth_token = ""
TokensMissing(a) == a.auth_token = "" \/ a.ct0 = ""

\* fs.readFileSync(f, 'utf-8').split('\n')
\* (the text is cut at a separator near its middle to keep the evaluation shallow)
RECURSIVE SplitLines(_)
SplitLines(t) ==
  LET nl == { i \in 1..Len(t) : t[i] = "\n" }
      after == { i \in nl : 2 * i >= Len(t) }
      k == IF after # {} THEN CHOOSE a \in after : \A b \in after : a <= b
           ELSE CHOOSE a \in nl : \A b \in nl : b <= a
  IN IF nl = {} THEN << t >>
     ELSE SplitLines(SubSeq(t, 1, k - 1)) \o SplitLines(SubSeq(t, k + 1, Len(t)))

Whitespace == { " ", "\r" }

\* String.prototype.trim
Trim(l) ==
  LET keep == { i \in 1..Len(l) : l[i] \notin Whitespace }
  IN IF keep = {} THEN << >>
     ELSE SubSeq(l, CHOOSE a \in keep : \A i \in keep : a <= i,
                    CHOOSE b \in keep : \A i \in keep : i <= b)

\* .filter(Boolean) on strings: the empty string is dropped
NonEmptyLine(l) == l # << >>

\* .split('\n').map(line => line.trim()).filter(Boolean), lines 223-224
ReadLines(f) ==
  LET ls == SplitLines(f.text)
  IN SelectSeq([ i \in 1..Len(ls) |-> Trim(ls[i]) ], NonEmptyLine)

\* the history record of a replyToTweet call that has not started
\* (url: what page.goto was called with; submitted: how line 342 ended)
NoItem == [ opened |-> 0, closed |-> 0, shots |-> 0, timedOut |-> "none",
            steps |-> << >>, threw |-> FALSE, url |-> << >>, submitted |-> "none" ]

-----------------------------------------------------------------------------
(* Keywords *)

\* String.prototype.toLowerCase on the strings the model uses
ToLowerCase(x) ==
  CASE x = "Giverep" -> "giverep"
    [] x = "SUI" -> "sui"
    [] x = "Reply" -> "reply"
    [] x = "REPLY" -> "reply"
    [] x = "All" -> "all"
    [] x = "Cancel" -> "cancel"
    [] OTHER -> x

\* the configured list (lines 10-13) and other lists of the same shape
KeywordLists ==
  { << >>, << "Giverep", "giverep" >>, << "giverep", "SUI" >> }

\* [...new Set(targetKeywords.map(x => x.toLowerCase()))]
NormalizeKeywords(ks) == AddAll(<< >>, [ i \in 1..Len(ks) |-> ToLowerCase(ks[i]) ])

-----------------------------------------------------------------------------
(* Math.random *)

\* the numerators r of the values r / RandomDenominator that Math.random() yields
RandomValues ==
  { (k * (RandomDenominator - 1)) \div (RandomSamples - 1) : k \in 0..(RandomSamples - 1) }

\* Math.floor(Math.random() * n)
FloorOfRandomTimes(r, n) == (r * n) \div RandomDenominator

-----------------------------------------------------------------------------
(* Process termination *)

\* process.exit(1), and an uncaught exception or unhandled rejection
Jump(p) == pc' = p /\ exitCode' = exitCode
Exit1 == pc' = "exited" /\ exitCode' = 1
Crash == pc' = "crashed" /\ exitCode' = 1

-----------------------------------------------------------------------------
(* The scraper, lines 1-178 *)

OldList == File(JoinLines(<< TweetHref(800), TweetHref(801) >>))

InitScraper ==
  /\ script = "scraper" /\ pc = "load" /\ exitCode = -1
  /\ authFile \in AuthFiles
  /\ tweetsFile \in { NoFile, OldList } /\ tweetsFile0 = tweetsFile
  /\ commentsFile = NoFile
  /\ browser = "none" /\ initCalls = 0 /\ writes = 0
  /\ targetKeywords \in KeywordLists
  /\ keywords = << >> /\ kwIdx = 0
  /\ tweetUrlSet = << >> /\ lastHeight = 0 /\ scrollTries = 0
  /\ allUrls = << >> /\ urls = << >>
  /\ iters = 0 /\ stalledOnly = TRUE /\ kwLog = << >>
  /\ navigated = << >> /\ scrolled = FALSE /\ threwAt = "none"
  /\ tweetUrls = << >> /\ cannedComments = << >> /\ itemIdx = 0 /\ replyText = ""
  /\ openPages = 0 /\ tweetId = << >> /\ clicked = FALSE
  /\ item = NoItem /\ invoked = << >> /\ outcomes = << >>
  /\ candidates = << >> /\ clickedAt = 0 /\ replyDelay = 0 /\ pauses = 0

\* lines 42-50
AuthRejected(a) ==
  \/ ~a.exists
  \/ ParseThrows(a)
  \/ FieldAccessThrows(a)
  \/ TokensMissing(a)

LoadAuth ==
  /\ script = "scraper" /\ pc = "load"
  /\ IF AuthRejected(authFile) THEN Exit1 ELSE Jump("main")
  /\ UNCHANGED << envVars, sVars, dVars >>

\* main line 156-159 with initializeBrowser, lines 59-90
InitializeBrowser ==
  /\ script = "scraper" /\ pc = "main"
  /\ initCalls' = initCalls + 1
  /\ \/ /\ browser' = "open"
        /\ keywords' = NormalizeKeywords(targetKeywords)
        /\ kwIdx' = 1 /\ allUrls' = << >>
        /\ Jump("kw")
     \/ /\ browser' \in { "none", "open" }   \* launch, or a later step, rejects
        /\ Crash
        /\ UNCHANGED << keywords, kwIdx, allUrls >>
  /\ UNCHANGED << script, authFile, tweetsFile, tweetsFile0, commentsFile, writes,
                  targetKeywords, tweetUrlSet, lastHeight, scrollTries, urls, iters,
                  stalledOnly, kwLog, navigated, scrolled, threwAt, dVars >>

\* what main does with the array scrapeUrlsForKeyword returns, lines 162-163
\* (shot: the zero-result screenshot of line 149 was taken on the way)
ReturnToMain(result, gotoFailed, shot) ==
  /\ urls' = result
  /\ allUrls' = AddAll(allUrls, result)
  /\ kwLog' = Append(kwLog, [ keyword |-> keywords[kwIdx], gotoFailed |-> gotoFailed,
                              found |-> Len(tweetUrlSet), returned |-> Len(result),
                              shot |-> shot ])
  /\ kwIdx' = kwIdx + 1
  /\ tweetUrlSet' = << >> /\ lastHeight' = 0 /\ scrollTries' = 0
  /\ iters' = 0 /\ stalledOnly' = TRUE /\ scrolled' = FALSE
  /\ threwAt' = threwAt
  /\ Jump("kw")

\* a rejection that nothing in scrapeUrlsForKeyword catches: it leaves the
\* function (whose locals are gone) and main
Thrown(at) ==
  /\ Crash
  /\ threwAt' = at
  /\ tweetUrlSet' = << >> /\ lastHeight' = 0 /\ scrollTries' = 0
  /\ iters' = 0 /\ stalledOnly' = TRUE /\ scrolled' = FALSE
  /\ UNCHANGED << urls, allUrls, kwLog, kwIdx >>

\* catch block of page.goto, lines 97-100
GotoCatchRethrow == Thrown("goto")
GotoCatch == ReturnToMain(<< >>, TRUE, FALSE)

\* lines 161-162 and 93-100
ScrapeGoto ==
  /\ script = "scraper" /\ pc = "kw" /\ kwIdx <= Len(keywords)
  /\ navigated' = Append(navigated, keywords[kwIdx])
  /\ \/ GotoCatch
     \/ /\ Jump("wait")
        /\ UNCHANGED << urls, allUrls, kwLog, kwIdx, tweetUrlSet, lastHeight,
                        scrollTries, iters, stalledOnly, scrolled, threwAt >>
  /\ UNCHANGED << envVars, targetKeywords, keywords, dVars >>

\* lines 103-113: the race never rejects into the function; the first
\* measurement of document.body.scrollHeight may
WaitAndMeasure ==
  /\ script = "scraper" /\ pc = "wait"
  /\ \/ /\ \E h \in Heights : lastHeight' = h
        /\ Jump("loop")
        /\ UNCHANGED << kwIdx, tweetUrlSet, scrollTries, allUrls, urls, iters,
                        stalledOnly, kwLog, scrolled, threwAt >>
     \/ Thrown("measure")
  /\ UNCHANGED << envVars, targetKeywords, keywords, navigated, dVars >>

\* line 115
LoopCondNoStall == Len(tweetUrlSet) < maxTweetsPerKeyword
LoopCond == Len(tweetUrlSet) < maxTweetsPerKeyword /\ scrollTries < maxScrollTries

\* line 131
QuotaReachedNever(s) == FALSE
QuotaReached(s) == Len(s) >= maxTweetsPerKeyword

\* lines 137-143
StallUpdateNoCount(newHeight) ==
  /\ scrollTries' = 0
  /\ lastHeight' = newHeight
StallUpdate(newHeight) ==
  IF newHeight = lastHeight
  THEN scrollTries' = scrollTries + 1 /\ lastHeight' = lastHeight
  ELSE scrollTries' = 0 /\ lastHeight' = newHeight

\* one iteration of the collection loop, lines 115-144
LoopIteration ==
  /\ script = "scraper" /\ pc = "loop" /\ LoopCond
  /\ \/ \* page.$$eval rejects
        Thrown("eval")
     \/ \E w \in Windows :
          LET s == AddAll(tweetUrlSet, Extracted[w]) IN
          IF QuotaReached(s)
          THEN \* break, line 131
               /\ tweetUrlSet' = s
               /\ iters' = IF stalledOnly THEN iters + 1 ELSE 0
               /\ scrolled' = FALSE
               /\ Jump("loop")
               /\ UNCHANGED << lastHeight, scrollTries, stalledOnly >>
               /\ UNCHANGED << urls, allUrls, kwLog, kwIdx, threwAt >>
          ELSE \/ \* the scroll or the re-measurement rejects
                  Thrown("scroll")
               \/ \E newHeight \in Heights :
                    /\ tweetUrlSet' = s
                    /\ iters' = IF stalledOnly THEN iters + 1 ELSE 0
                    /\ scrolled' = TRUE
                    /\ StallUpdate(newHeight)
                    /\ stalledOnly' = (stalledOnly /\ newHeight = lastHeight)
                    /\ Jump("loop")
                    /\ UNCHANGED << urls, allUrls, kwLog, kwIdx, threwAt >>
  /\ UNCHANGED << envVars, targetKeywords, keywords, navigated, dVars >>

\* lines 146-152 and the return into main, line 163
AfterLoop ==
  /\ script = "scraper" /\ pc = "loop" /\ ~LoopCond
  /\ \/ \* page.screenshot of the zero-result diagnostic rejects
        /\ Len(tweetUrlSet) = 0
        /\ Thrown("screenshot")
     \/ ReturnToMain(Slice(tweetUrlSet, maxTweetsPerKeyword), FALSE,
                     Len(tweetUrlSet) = 0)
  /\ UNCHANGED << envVars, targetKeywords, keywords, navigated, dVars >>

\* lines 166-172
SaveCond == Len(allUrls) > 0

Save ==
  /\ script = "scraper" /\ pc = "kw" /\ kwIdx > Len(keywords)
  /\ IF SaveCond
     THEN tweetsFile' = File(JoinLines(allUrls)) /\ writes' = writes + 1
     ELSE UNCHANGED << tweetsFile, writes >>
  /\ Jump("close")
  /\ UNCHANGED << script, authFile, tweetsFile0, commentsFile, browser,
                  initCalls, sVars, dVars >>

\* lines 174-175
BrowserClose ==
  /\ script = "scraper" /\ pc = "close"
  /\ \/ browser' = "closed" /\ pc' = "done" /\ exitCode' = 0
     \/ Crash /\ UNCHANGED browser
  /\ UNCHANGED << script, authFile, tweetsFile, tweetsFile0, commentsFile,
                  initCalls, writes, sVars, dVars >>

NextScraper ==
  \/ LoadAuth
  \/ InitializeBrowser
  \/ ScrapeGoto
  \/ WaitAndMeasure
  \/ LoopIteration
  \/ AfterLoop
  \/ Save
  \/ BrowserClose

ScraperSpec == InitScraper /\ [][NextScraper]_vars

-----------------------------------------------------------------------------
(* The dispatcher, lines 180-385 *)

\* inputs: lines a tweets_to_reply.txt can hold
InputLines ==
  { TweetHref(1), PhotoHref(2), ProfileHref, << >>, << " " >> \o WebHref(3) \o << "\r" >> }

TweetsFiles ==
  { NoFile } \cup
  { File(JoinLines(ls)) : ls \in UNION { [ 1..n -> InputLines ] : n \in 0..MaxItems } }

CommentsFiles ==
  { NoFile, File(<< >>), File(<< "gm" >>), File(<< "gm", "\n", "nice", "\n" >>) }

\* cannedComments[Math.floor(Math.random() * cannedComments.length)], lines
\* 234-236; undefined (here the empty line) when the index is not in the array
Undefined == << >>
GetCannedReply(r) ==
  LET i == FloorOfRandomTimes(r, Len(cannedComments)) + 1
  IN IF i \in 1..Len(cannedComments) THEN cannedComments[i] ELSE Undefined
CannedReplies == { GetCannedReply(r) : r \in RandomValues }

InitDispatcher ==
  /\ script = "dispatcher" /\ pc = "load" /\ exitCode = -1
  /\ authFile \in AuthFiles
  /\ tweetsFile \in TweetsFiles /\ tweetsFile0 = tweetsFile
  /\ commentsFile \in CommentsFiles
  /\ browser = "none" /\ initCalls = 0 /\ writes = 0
  /\ targetKeywords = << >>
  /\ keywords = << >> /\ kwIdx = 0
  /\ tweetUrlSet = << >> /\ lastHeight = 0 /\ scrollTries = 0
  /\ allUrls = << >> /\ urls = << >>
  /\ iters = 0 /\ stalledOnly = TRUE /\ kwLog = << >>
  /\ navigated = << >> /\ scrolled = FALSE /\ threwAt = "none"
  /\ tweetUrls = << >> /\ cannedComments = << >> /\ itemIdx = 0 /\ replyText = << >>
  /\ openPages = 0 /\ tweetId = << >> /\ clicked = FALSE
  /\ item = NoItem /\ invoked = << >> /\ outcomes = << >>
  /\ candidates = << >> /\ clickedAt = 0 /\ replyDelay = 0 /\ pauses = 0

\* lines 211-229
FilesRejected ==
  \/ ~tweetsFile.exists
  \/ ~commentsFile.exists
  \/ AuthRejected(authFile)

LoadFiles ==
  /\ script = "dispatcher" /\ pc = "load"
  /\ IF FilesRejected
     THEN Exit1 /\ UNCHANGED << tweetUrls, cannedComments >>
     ELSE /\ tweetUrls' = ReadLines(tweetsFile)
          /\ cannedComments' = ReadLines(commentsFile)
          /\ Jump("main")
  /\ UNCHANGED << envVars, sVars, itemIdx, replyText, openPages, tweetId, clicked,
                  item, invoked, outcomes, candidates, clickedAt, replyDelay, pauses >>

\* main line 367 with initializeBrowser, lines 243-274
InitializeBrowserD ==
  /\ script = "dispatcher" /\ pc = "main"
  /\ initCalls' = initCalls + 1
  /\ \/ browser' = "open" /\ itemIdx' = 1 /\ Jump("next")
     \/ browser' \in { "none", "open" } /\ Crash /\ UNCHANGED itemIdx
  /\ UNCHANGED << script, authFile, tweetsFile, tweetsFile0, commentsFile, writes,
                  sVars, tweetUrls, cannedComments, replyText, openPages, tweetId,
                  clicked, item, invoked, outcomes, candidates, clickedAt,
                  replyDelay, pauses >>

\* tweetUrl.match(/status\/(\d+)/): the places where the pattern matches
MatchPlaces(h) ==
  { k \in 1..Len(h) : /\ k + 2 <= Len(h)
                      /\ h[k] = "status" /\ h[k+1] = "/" /\ h[k+2] \in Digits }
\* match[1]: the longest run of digits after the first match
MatchIdToEnd(h) ==
  LET k == CHOOSE a \in MatchPlaces(h) : \A b \in MatchPlaces(h) : a <= b
  IN SubSeq(h, k + 2, Len(h))
MatchId(h) ==
  LET k == CHOOSE a \in MatchPlaces(h) : \A b \in MatchPlaces(h) : a <= b
      e == CHOOSE b \in (k+2)..Len(h) :
             /\ \A j \in (k+2)..b : h[j] \in Digits
             /\ b = Len(h) \/ h[b+1] \notin Digits
  IN SubSeq(h, k + 2, e)

\* `https://x.com/i/web/status/${tweetId}`, line 308
ReplyUrl(id) == << "https://x.com", "/", "i", "/", "web", "/", "status", "/" >> \o id

\* the page's dialog as clickReplyButtonByLabel saw it
dom == << candidates, clickedAt >>

\* return value of replyToTweet reaching main, lines 372-375
Return(success) ==
  /\ outcomes' = Append(outcomes, success)
  /\ Jump("pace")

\* a rejection inside the try block, caught at line 358
Caught ==
  /\ item' = [ item EXCEPT !.threw = TRUE ]
  /\ Jump("catchShot")
  /\ UNCHANGED << outcomes, openPages, dom >>

\* a step of the try block that resolved
Done(name, to) ==
  /\ item' = [ item EXCEPT !.steps = Append(@, name) ]
  /\ Jump(to)
  /\ UNCHANGED << outcomes, openPages, dom >>

\* lines 369-372 and 302-308
BeginItem ==
  /\ script = "dispatcher" /\ pc = "next" /\ itemIdx <= Len(tweetUrls)
  /\ \E r \in CannedReplies : replyText' = r
  /\ invoked' = Append(invoked, tweetUrls[itemIdx])
  /\ item' = NoItem /\ clicked' = FALSE
  /\ candidates' = << >> /\ clickedAt' = 0
  /\ IF MatchPlaces(tweetUrls[itemIdx]) = {}
     THEN Return(FALSE) /\ tweetId' = << >>
     ELSE /\ tweetId' = MatchId(tweetUrls[itemIdx])
          /\ Jump("newPage")
          /\ UNCHANGED outcomes
  /\ UNCHANGED << envVars, sVars, tweetUrls, cannedComments, itemIdx, openPages,
                  replyDelay, pauses >>

dFrame == << envVars, sVars, tweetUrls, cannedComments, itemIdx, replyText, tweetId,
             invoked, replyDelay, pauses >>

\* line 311
NewPage ==
  /\ script = "dispatcher" /\ pc = "newPage"
  /\ \/ /\ openPages' = openPages + 1
        /\ item' = [ item EXCEPT !.opened = @ + 1 ]
        /\ Jump("setUserAgent")
     \/ Crash /\ UNCHANGED << openPages, item >>
  /\ UNCHANGED << dFrame, clicked, outcomes, dom >>

\* line 312
SetUserAgent ==
  /\ script = "dispatcher" /\ pc = "setUserAgent"
  /\ \/ Jump("goto")
     \/ Crash
  /\ UNCHANGED << dFrame, clicked, outcomes, openPages, item, dom >>

\* line 315: page.goto(replyUrl) resolves, or rejects into the catch block
PageGoto ==
  /\ script = "dispatcher" /\ pc = "goto"
  /\ LET called == [ item EXCEPT !.url = ReplyUrl(tweetId) ] IN
     \/ item' = [ called EXCEPT !.steps = Append(@, "goto") ] /\ Jump("waitArticle")
     \/ item' = [ called EXCEPT !.threw = TRUE ] /\ Jump("catchShot")
  /\ UNCHANGED << dFrame, clicked, outcomes, openPages, dom >>

\* lines 318-320: a timeout of this wait has its own handler
ArticleTimeoutContinues ==
  /\ item' = [ item EXCEPT !.timedOut = "article" ]
  /\ Jump("scroll")
  /\ UNCHANGED << outcomes, openPages, dom >>
ArticleTimeout ==
  /\ item' = [ item EXCEPT !.timedOut = "article" ]
  /\ Jump("articleShot")
  /\ UNCHANGED << outcomes, openPages, dom >>

WaitArticle ==
  /\ script = "dispatcher" /\ pc = "waitArticle"
  /\ \/ Done("waitArticle", "scroll")
     \/ ArticleTimeout
  /\ UNCHANGED << dFrame, clicked >>

\* page.screenshot resolved
Shot(to) ==
  /\ item' = [ item EXCEPT !.shots = @ + 1 ]
  /\ Jump(to)
  /\ UNCHANGED << outcomes, openPages, dom >>

\* page.close resolved (the page and its dialog are gone), and the function
\* returns; the close of line 355 is the last step of a reply that was sent
CloseAndReturn(success) ==
  /\ item' = [ item EXCEPT !.closed = @ + 1,
                           !.steps = IF success THEN Append(@, "close") ELSE @ ]
  /\ openPages' = openPages - 1
  /\ candidates' = << >> /\ clickedAt' = 0
  /\ Return(success)

\* page.close rejected: the page may or may not be gone
CloseThrew ==
  /\ item' = [ item EXCEPT !.threw = TRUE ]
  /\ openPages' \in { openPages, openPages - 1 }
  /\ UNCHANGED << outcomes, dom >>

\* line 322
ArticleScreenshot ==
  /\ script = "dispatcher" /\ pc = "articleShot"
  /\ \/ Shot("articleClose")
     \/ Caught
  /\ UNCHANGED << dFrame, clicked >>

\* lines 323-324
ArticleClose ==
  /\ script = "dispatcher" /\ pc = "articleClose"
  /\ \/ CloseAndReturn(FALSE)
     \/ CloseThrew /\ Jump("catchShot")
  /\ UNCHANGED << dFrame, clicked >>

\* lines 326-333
ScrollIntoView ==
  /\ script = "dispatcher" /\ pc = "scroll"
  /\ \/ Done("scroll", "waitReply")
     \/ Caught
  /\ UNCHANGED << dFrame, clicked >>

\* a wait without a handler of its own times out: caught at line 358
WaitTimeout(which) ==
  /\ item' = [ item EXCEPT !.timedOut = which, !.threw = TRUE ]
  /\ Jump("catchShot")
  /\ UNCHANGED << outcomes, openPages, dom >>

\* line 335
WaitReply ==
  /\ script = "dispatcher" /\ pc = "waitReply"
  /\ \/ Done("waitReply", "clickReply")
     \/ WaitTimeout("reply")
  /\ UNCHANGED << dFrame, clicked >>

\* lines 336-337
ClickReply ==
  /\ script = "dispatcher" /\ pc = "clickReply"
  /\ \/ Done("clickReply", "waitInput")
     \/ Caught
  /\ UNCHANGED << dFrame, clicked >>

\* line 339
WaitInput ==
  /\ script = "dispatcher" /\ pc = "waitInput"
  /\ \/ Done("waitInput", "type")
     \/ WaitTimeout("input")
  /\ UNCHANGED << dFrame, clicked >>

\* line 340: typing undefined rejects
TypeText ==
  /\ script = "dispatcher" /\ pc = "type"
  /\ \/ replyText # Undefined /\ Done("type", "submit")
     \/ Caught
  /\ UNCHANGED << dFrame, clicked >>

\* an element of the dialog: its textContent and aria-label (empty when the
\* attribute is absent), the computed visibility and display, the disabled
\* property and the aria-disabled attribute
Element(text, label, visibility, display, disabled, ariaDisabled) ==
  [ text |-> text, label |-> label, visibility |-> visibility, display |-> display,
    disabled |-> disabled, ariaDisabled |-> ariaDisabled ]

ReplyButton == Element(<< " ", "Reply", " " >>, << >>, "visible", "block", FALSE, "absent")
ReplySpan == Element(<< "reply" >>, << >>, "visible", "inline", FALSE, "absent")
ReplyByLabel == Element(<< >>, << " ", "REPLY" >>, "visible", "block", FALSE, "false")
HiddenReply == Element(<< "Reply" >>, << >>, "hidden", "block", FALSE, "absent")
UndisplayedReply == Element(<< "Reply" >>, << >>, "visible", "none", FALSE, "absent")
DisabledReply == Element(<< "Reply" >>, << "Reply" >>, "visible", "block", TRUE, "absent")
AriaDisabledReply == Element(<< "Reply" >>, << >>, "visible", "block", FALSE, "true")
ReplyAllButton == Element(<< "Reply", " ", "All" >>, << >>, "visible", "block", FALSE, "absent")
CancelButton == Element(<< "Cancel" >>, << "Cancel" >>, "visible", "block", FALSE, "absent")

\* document.querySelectorAll(...) of line 288, in document order
CandidateLists ==
  { << >>,
    << CancelButton >>,
    << ReplyButton, ReplySpan >>,
    << CancelButton, ReplyByLabel, ReplyButton >>,
    << HiddenReply, UndisplayedReply, ReplySpan, ReplyByLabel >>,
    << DisabledReply, AriaDisabledReply, ReplyAllButton >>,
    << ReplyAllButton, AriaDisabledReply, CancelButton, ReplyButton >> }

\* lines 278-287
IsVisibleAndEnabled(btn) ==
  /\ btn.visibility # "hidden"
  /\ btn.display # "none"
  /\ ~btn.disabled
  /\ (btn.ariaDisabled = "absent" \/ btn.ariaDisabled = "false")

\* s ? s.trim().toLowerCase() : '', lines 290-291
TrimmedLowerCase(s) ==
  IF s = << >> THEN << >>
  ELSE LET t == Trim(s) IN [ i \in 1..Len(t) |-> ToLowerCase(t[i]) ]

\* line 292
IsReplyControl(btn) ==
  /\ TrimmedLowerCase(btn.text) = << "reply" >> \/ TrimmedLowerCase(btn.label) = << "reply" >>
  /\ IsVisibleAndEnabled(btn)

\* the for loop of lines 289-297 from candidate i on: the position of the
\* element it clicks, 0 when it ends without a click
RECURSIVE ScanCandidates(_, _)
ScanCandidates(cs, i) ==
  IF i > Len(cs) THEN 0
  ELSE IF IsReplyControl(cs[i]) THEN i
  ELSE ScanCandidates(cs, i + 1)

\* lines 276-299
ClickReplyButtonByLabel(cs) == ScanCandidates(cs, 1)

\* lines 342-346: page.evaluate may reject as well
Submit ==
  /\ script = "dispatcher" /\ pc = "submit"
  /\ \/ \E cs \in CandidateLists :
          LET at == ClickReplyButtonByLabel(cs) IN
          /\ candidates' = cs /\ clickedAt' = at
          /\ clicked' = (at # 0)
          /\ IF at # 0
             THEN /\ item' = [ item EXCEPT !.steps = Append(@, "submit"),
                                           !.submitted = "clicked" ]
                  /\ Jump("sentShot")
             ELSE /\ item' = [ item EXCEPT !.submitted = "notFound" ]
                  /\ Jump("errorShot")
          /\ UNCHANGED << outcomes, openPages >>
     \/ Caught /\ UNCHANGED clicked
  /\ UNCHANGED dFrame

\* line 347
ErrorScreenshot ==
  /\ script = "dispatcher" /\ pc = "errorShot"
  /\ \/ Shot("errorClose")
     \/ Caught
  /\ UNCHANGED << dFrame, clicked >>

\* lines 348-349
ErrorClose ==
  /\ script = "dispatcher" /\ pc = "errorClose"
  /\ \/ CloseAndReturn(FALSE)
     \/ CloseThrew /\ Jump("catchShot")
  /\ UNCHANGED << dFrame, clicked >>

\* lines 352-353
SentScreenshot ==
  /\ script = "dispatcher" /\ pc = "sentShot"
  /\ \/ /\ item' = [ item EXCEPT !.shots = @ + 1, !.steps = Append(@, "screenshot") ]
        /\ Jump("sentClose")
        /\ UNCHANGED << outcomes, openPages, dom >>
     \/ Caught
  /\ UNCHANGED << dFrame, clicked >>

\* lines 355-357
SentClose ==
  /\ script = "dispatcher" /\ pc = "sentClose"
  /\ \/ CloseAndReturn(TRUE)
     \/ CloseThrew /\ Jump("catchShot")
  /\ UNCHANGED << dFrame, clicked >>

\* line 360, in the catch block: a rejection here leaves replyToTweet and main
\* (a page that is gone cannot be captured)
CatchScreenshot ==
  /\ script = "dispatcher" /\ pc = "catchShot"
  /\ \/ openPages >= 1 /\ Shot("catchClose")
     \/ Crash /\ UNCHANGED << item, outcomes, openPages, dom >>
  /\ UNCHANGED << dFrame, clicked >>

\* lines 361-362
CatchClose ==
  /\ script = "dispatcher" /\ pc = "catchClose"
  /\ \/ openPages >= 1 /\ CloseAndReturn(FALSE)
     \/ CloseThrew /\ Crash
  /\ UNCHANGED << dFrame, clicked >>

\* Math.floor(Math.random() * 7000) + 5000, line 376
ReplyDelayNoBase(r) == FloorOfRandomTimes(r, 7000)
ReplyDelay(r) == FloorOfRandomTimes(r, 7000) + 5000

\* lines 373-378: the pause of replyDelay milliseconds starts
Pace ==
  /\ script = "dispatcher" /\ pc = "pace"
  /\ \E r \in RandomValues : replyDelay' = ReplyDelay(r)
  /\ Jump("delay")
  /\ UNCHANGED << envVars, sVars, tweetUrls, cannedComments, itemIdx, replyText,
                  openPages, tweetId, clicked, item, invoked, outcomes, dom, pauses >>

\* line 378 resolves after replyDelay milliseconds: the next element of
\* tweetUrls, line 369
DelayElapsed ==
  /\ script = "dispatcher" /\ pc = "delay"
  /\ replyDelay' = 0
  /\ pauses' = pauses + 1
  /\ itemIdx' = itemIdx + 1
  /\ Jump("next")
  /\ UNCHANGED << envVars, sVars, tweetUrls, cannedComments, replyText, openPages,
                  tweetId, clicked, item, invoked, outcomes, dom >>

\* lines 381-382
BrowserCloseD ==
  /\ script = "dispatcher" /\ pc = "next" /\ itemIdx > Len(tweetUrls)
  /\ \/ browser' = "closed" /\ pc' = "done" /\ exitCode' = 0
     \/ Crash /\ UNCHANGED browser
  /\ UNCHANGED << script, authFile, tweetsFile, tweetsFile0, commentsFile,
                  initCalls, writes, sVars, dVars >>

NextDispatcher ==
  \/ LoadFiles
  \/ InitializeBrowserD
  \/ BeginItem
  \/ NewPage
  \/ SetUserAgent
  \/ PageGoto
  \/ WaitArticle
  \/ ArticleScreenshot
  \/ ArticleClose
  \/ ScrollIntoView
  \/ WaitReply
  \/ ClickReply
  \/ WaitInput
  \/ TypeText
  \/ Submit
  \/ ErrorScreenshot
  \/ ErrorClose
  \/ SentScreenshot
  \/ SentClose
  \/ CatchScreenshot
  \/ CatchClose
  \/ Pace
  \/ DelayElapsed
  \/ BrowserCloseD

DispatcherSpec == InitDispatcher /\ [][NextDispatcher]_vars

-----------------------------------------------------------------------------
(* Either script *)

Init == InitScraper \/ InitDispatcher
Next == NextScraper \/ NextDispatcher
Spec == Init /\ [][Next]_vars

-----------------------------------------------------------------------------
(* Properties *)

Last(s) == s[Len(s)]

\* the canonical detail-URL pattern ^https://x.com/<user>/status/<digits>$
IsCanonical(u) ==
  /\ Len(u) >= 7
  /\ SubSeq(u, 1, 2) = << "https://x.com", "/" >>
  /\ u[3] \notin { "/", "\n", " " }
  /\ SubSeq(u, 4, 6) = << "/", "status", "/" >>
  /\ \A j \in 7..Len(u) : u[j] \in Digits

\* the dispatcher's main loop was entered and an item stopped it
CrashedInItem ==
  script = "dispatcher" /\ pc = "crashed" /\ itemIdx \in 1..Len(tweetUrls)

\* no replyToTweet call is in progress
BetweenItems == pc \in { "pace", "delay", "next", "done", "crashed" }

\* C1: whatever steps of an item fail, replyToTweet is invoked once per URL in
\* list order, every invocation yields one boolean outcome, and main runs to
\* the end of the list and reaches browser.close(): no item stops the batch.
C1_BatchCompletion ==
  (script = "dispatcher" /\ itemIdx >= 1) =>
    /\ Len(invoked) <= Len(tweetUrls)
    /\ invoked = SubSeq(tweetUrls, 1, Len(invoked))
    /\ Len(outcomes) <= Len(invoked) /\ Len(invoked) <= Len(outcomes) + 1
    /\ BetweenItems => Len(outcomes) = Len(invoked)
    /\ pc \in { "done", "crashed" } =>
         itemIdx > Len(tweetUrls) /\ Len(outcomes) = Len(tweetUrls)

\* C2: while every re-measured scroll extent has equalled the recorded one,
\* the collection loop of a keyword runs at most maxScrollTries iterations,
\* whatever was extracted: after the 20th the stall counter or the quota has
\* ended the loop.
C2_StallTermination ==
  (script = "scraper" /\ pc = "loop" /\ stalledOnly) =>
    /\ iters <= maxScrollTries
    /\ iters = maxScrollTries =>
         (scrollTries = maxScrollTries \/ Len(tweetUrlSet) >= maxTweetsPerKeyword)

C2_Witness ==
  /\ script = "scraper" /\ pc = "loop" /\ stalledOnly
  /\ iters = maxScrollTries /\ Len(tweetUrlSet) > 0

\* C3 (as stated): the number of URLs collected for a keyword never exceeds
\* the quota maxTweetsPerKeyword.
C3_CollectedWithinQuota == Len(tweetUrlSet) <= maxTweetsPerKeyword

\* C3 (amended): the array scrapeUrlsForKeyword returns has at most
\* maxTweetsPerKeyword elements, for every keyword.
C3_ReturnedWithinQuota ==
  /\ Len(urls) <= maxTweetsPerKeyword
  /\ \A i \in 1..Len(kwLog) : kwLog[i].returned <= maxTweetsPerKeyword

C3_Witness ==
  \E i \in 1..Len(kwLog) :
    kwLog[i].found > maxTweetsPerKeyword /\ kwLog[i].returned = maxTweetsPerKeyword

\* C4: every URL of a keyword's result, of the union over the keywords and of
\* the written output file matches the canonical detail-URL pattern, none is
\* blank and none occurs twice.
C4_OutputWellFormed ==
  script = "scraper" =>
    /\ \A u \in Range(urls) \cup Range(allUrls) : IsCanonical(u) /\ u # << >>
    /\ NoDuplicates(urls) /\ NoDuplicates(allUrls)
    /\ writes > 0 =>
         LET lines == SplitLines(tweetsFile.text)
         IN /\ \A i \in 1..Len(lines) : IsCanonical(lines[i]) /\ lines[i] # << >>
            /\ NoDuplicates(lines)

C4_Witness ==
  /\ script = "scraper" /\ writes = 1 /\ Len(kwLog) = 2
  /\ kwLog[1].returned > 0 /\ kwLog[2].returned > 0
  /\ Len(allUrls) < kwLog[1].returned + kwLog[2].returned
  /\ Len(SplitLines(tweetsFile.text)) = Len(allUrls)

\* a required input is missing or auth.json is unusable
BadAuth(a) == ~a.exists \/ a.json # "object" \/ a.auth_token = "" \/ a.ct0 = ""
BadConfig ==
  \/ BadAuth(authFile)
  \/ script = "dispatcher" /\ (~tweetsFile0.exists \/ ~commentsFile.exists)

\* C5: with a required input file missing, or auth.json malformed or without
\* auth_token or ct0, either script exits non-zero before initializeBrowser is
\* called: no browser, no page, no write to any file.
C5_FailFast ==
  BadConfig =>
    /\ pc \in { "load", "exited" }
    /\ pc = "exited" => exitCode = 1
    /\ pc = "load" => ENABLED (LoadAuth \/ LoadFiles)
    /\ initCalls = 0 /\ browser = "none" /\ openPages = 0
    /\ writes = 0 /\ tweetsFile = tweetsFile0

C5_Witness ==
  /\ script = "dispatcher" /\ pc = "exited" /\ exitCode = 1
  /\ tweetsFile0.exists /\ commentsFile.exists
  /\ authFile.json = "object" /\ authFile.auth_token = "tok" /\ authFile.ct0 = ""

\* C6: a failure while scraping one keyword is confined to that keyword: the
\* remaining keywords are scraped, the URLs collected are saved and the
\* browser is closed at the end of main.
C6_KeywordIsolation ==
  (script = "scraper" /\ kwIdx >= 1 /\ pc \in { "done", "crashed" }) =>
    /\ kwIdx > Len(keywords) /\ Len(kwLog) = Len(keywords)
    /\ allUrls # << >> => tweetsFile = File(JoinLines(allUrls))

\* C7: a step that leaves the search navigation of a keyword without the
\* navigation having succeeded returns the empty array to main without
\* entering the collection loop, and main is at the next keyword.
C7_GotoFailureNotFatal ==
  [][ (script = "scraper" /\ pc = "kw" /\ kwIdx <= Len(keywords) /\ pc' # "wait") =>
        /\ pc' = "kw" /\ exitCode' = -1
        /\ kwIdx' = kwIdx + 1
        /\ urls' = << >> /\ allUrls' = allUrls
        /\ tweetUrlSet' = << >> /\ iters' = 0
        /\ Len(kwLog') = Len(kwLog) + 1 /\ Last(kwLog').gotoFailed ]_vars

C7_Witness ==
  /\ script = "scraper" /\ pc = "loop" /\ kwIdx = 2
  /\ Len(kwLog) = 1 /\ kwLog[1].gotoFailed /\ kwLog[1].returned = 0
  /\ Len(tweetUrlSet) > 0

\* C8: when one of the three waits of an item timed out, a screenshot was
\* captured, the page was closed, the item returned false, no later step of
\* the item ran, and main goes on to the next item.
C8_WaitTimeoutHandled ==
  (script = "dispatcher" /\ item.timedOut # "none" /\ BetweenItems) =>
    /\ ~CrashedInItem
    /\ item.shots >= 1 /\ item.closed = 1 /\ openPages = 0
    /\ Len(outcomes) = Len(invoked) /\ Last(outcomes) = FALSE
    /\ item.timedOut = "article" => Last(item.steps) = "goto"
    /\ item.timedOut = "reply" => Last(item.steps) = "scroll"
    /\ item.timedOut = "input" => Last(item.steps) = "clickReply"

\* C9: a reply attempt that opened a page has closed it exactly once when it
\* ends, on every exit path; at most one per-item page is open at any time
\* and none between two items or at browser.close().
C9_PageLifecycle ==
  script = "dispatcher" =>
    /\ openPages <= 1
    /\ BetweenItems => (openPages = 0 /\ item.closed = item.opened)

\* C10: a scraper run leaves the output file holding exactly the union of the
\* collected URLs when the union is not empty, and leaves the file untouched
\* when no URL was found.
C10_WriteCondition ==
  (script = "scraper" /\ kwIdx >= 1 /\ pc \in { "done", "crashed" }) =>
    IF allUrls # << >>
    THEN writes = 1 /\ tweetsFile = File(JoinLines(allUrls))
    ELSE writes = 0 /\ tweetsFile = tweetsFile0


\* C11 (as stated): every distinct case-normalised keyword gets exactly one
\* search navigation and every line of the input list exactly one reply
\* attempt, in order and never a second time, in every run.
C11_ExactlyOnce ==
  /\ (script = "scraper" /\ kwIdx >= 1) =>
       /\ NoDuplicates(keywords)
       /\ Range(keywords) = { ToLowerCase(targetKeywords[i]) : i \in 1..Len(targetKeywords) }
       /\ Len(navigated) <= Len(keywords)
       /\ navigated = SubSeq(keywords, 1, Len(navigated))
       /\ pc \in { "done", "crashed" } => navigated = keywords
  /\ (script = "dispatcher" /\ itemIdx >= 1) =>
       /\ Len(invoked) <= Len(tweetUrls)
       /\ invoked = SubSeq(tweetUrls, 1, Len(invoked))
       /\ pc \in { "done", "crashed" } => invoked = tweetUrls

\* C12 (as stated): with a non-empty pool the text of every attempt is a
\* member of the pool (the one string of a one-string pool), and there are as
\* many attempts and outcomes as input URLs, whatever the other attempts did.
C12_ReplyTextSelection ==
  (script = "dispatcher" /\ itemIdx >= 1 /\ cannedComments # << >>) =>
    /\ Len(invoked) >= 1 => replyText \in Range(cannedComments)
    /\ (Len(invoked) >= 1 /\ Len(cannedComments) = 1) => replyText = cannedComments[1]
    /\ pc \in { "done", "crashed" } =>
         Len(invoked) = Len(tweetUrls) /\ Len(outcomes) = Len(tweetUrls)

\* C13: when a reply attempt ends, with either outcome, the pause comes next;
\* its length is an integer between 5000 and 12000 milliseconds; and an
\* attempt starts only when a pause has elapsed after every earlier attempt.
C13_Pacing ==
  [][ script = "dispatcher" =>
        /\ Len(outcomes') > Len(outcomes) => pc' = "pace"
        /\ pc = "pace" => (pc' = "delay" /\ replyDelay' \in 5000..12000)
        /\ pc = "delay" => (pc' = "next" /\ pauses' = pauses + 1 /\ itemIdx' = itemIdx + 1)
        /\ Len(invoked') > Len(invoked) =>
             (pc = "next" /\ Len(outcomes) = Len(invoked) /\ pauses = Len(outcomes)) ]_vars

C13_Witness ==
  /\ script = "dispatcher" /\ pc = "delay" /\ replyDelay = 11999
  /\ outcomes = << TRUE, FALSE >> /\ pauses = 1

\* the steps of a reply attempt, in the order of lines 315-355
StepOrder ==
  << "goto", "waitArticle", "scroll", "waitReply", "clickReply", "waitInput", "type",
     "submit", "screenshot", "close" >>
\* where replyToTweet stands when it is about to run each of them
StepPc ==
  << "goto", "waitArticle", "scroll", "waitReply", "clickReply", "waitInput", "type",
     "submit", "sentShot", "sentClose" >>

\* C14: the steps an attempt has completed are always an initial part of the
\* fixed order, a step is about to run only when exactly the earlier ones
\* have completed, and an attempt that returned true completed all of them:
\* the submit control was clicked, then the screenshot, then the close.
C14_StepOrder ==
  script = "dispatcher" =>
    /\ Len(item.steps) <= Len(StepOrder)
    /\ item.steps = SubSeq(StepOrder, 1, Len(item.steps))
    /\ \A i \in 1..Len(StepPc) : pc = StepPc[i] => Len(item.steps) = i - 1
    /\ (BetweenItems /\ Len(outcomes) = Len(invoked) /\ Len(outcomes) >= 1
          /\ Last(outcomes)) =>
         /\ item.steps = StepOrder
         /\ clicked /\ item.submitted = "clicked"
         /\ item.shots = 1 /\ item.closed = 1

C14_Witness ==
  /\ script = "dispatcher" /\ pc = "pace" /\ Len(outcomes) = 2 /\ Last(outcomes)
  /\ item.steps = StepOrder

\* C15: scrollTries stays in 0..maxScrollTries; an iteration that goes on to
\* re-measure adds exactly 1 when the extent is the recorded one and otherwise
\* sets it to 0 and records the new extent; and the loop is left for the
\* return only with the quota reached or scrollTries at maxScrollTries.
C15_StallCounter ==
  [][ script = "scraper" =>
        /\ scrollTries' \in 0..maxScrollTries
        /\ (pc = "loop" /\ pc' = "loop") =>
             \/ scrolled' /\ lastHeight' = lastHeight /\ scrollTries' = scrollTries + 1
             \/ scrolled' /\ lastHeight' # lastHeight /\ scrollTries' = 0
             \/ ~scrolled' /\ lastHeight' = lastHeight /\ scrollTries' = scrollTries
        /\ (pc = "loop" /\ pc' = "kw") =>
             (Len(tweetUrlSet) >= maxTweetsPerKeyword \/ scrollTries = maxScrollTries) ]_vars

C15_Witness ==
  /\ script = "scraper" /\ pc = "loop" /\ scrollTries = maxScrollTries
  /\ ~stalledOnly /\ Len(tweetUrlSet) > 0

\* C16: an iteration only appends to the accumulated set and scrolls only
\* while the set is below the quota; the returned list is the first
\* maxTweetsPerKeyword entries of the set, in insertion order, when the set
\* holds more, and the whole set otherwise.
C16_QuotaStopAndTruncation ==
  [][ script = "scraper" =>
        /\ (pc = "loop" /\ pc' = "loop") =>
             /\ Len(tweetUrlSet) <= Len(tweetUrlSet')
             /\ SubSeq(tweetUrlSet', 1, Len(tweetUrlSet)) = tweetUrlSet
             /\ scrolled' <=> Len(tweetUrlSet') < maxTweetsPerKeyword
        /\ (pc = "loop" /\ pc' = "kw") =>
             urls' = IF Len(tweetUrlSet) > maxTweetsPerKeyword
                     THEN SubSeq(tweetUrlSet, 1, maxTweetsPerKeyword)
                     ELSE tweetUrlSet ]_vars

C16_Witness ==
  /\ script = "scraper" /\ pc = "kw" /\ Len(kwLog) >= 1
  /\ Last(kwLog).found > maxTweetsPerKeyword /\ Len(urls) = maxTweetsPerKeyword
  /\ urls[1] = TweetHref(WindowStride + 1) /\ urls[maxTweetsPerKeyword] # TweetHref(maxTweetsPerKeyword)

\* C17 (as stated): every keyword whose scrape returned no URL had the
\* diagnostic screenshot attempted, and no run was ended by that screenshot.
C17_ZeroResultDiagnostic ==
  script = "scraper" =>
    /\ \A i \in 1..Len(kwLog) : kwLog[i].returned = 0 => kwLog[i].shot
    /\ threwAt # "screenshot"

\* an element whose trimmed text or aria-label is 'reply' in any letter case
\* and which is visible, not disabled and not aria-disabled
C18_Qualifies(e) ==
  /\ \E s \in { e.text, e.label } :
       LET t == Trim(s) IN Len(t) = 1 /\ ToLowerCase(t[1]) = "reply"
  /\ e.visibility = "visible" /\ e.display # "none"
  /\ ~e.disabled /\ e.ariaDisabled # "true"

\* the element clicked is the first qualifying candidate, and none is clicked
\* only when none qualifies
C18_FirstMatch ==
  (script = "dispatcher" /\ pc \in { "sentShot", "errorShot" }) =>
    /\ clickedAt \in 0..Len(candidates)
    /\ clicked <=> clickedAt # 0
    /\ clickedAt # 0 =>
         /\ pc = "sentShot"
         /\ C18_Qualifies(candidates[clickedAt])
         /\ \A j \in 1..(clickedAt - 1) : ~C18_Qualifies(candidates[j])
    /\ clickedAt = 0 =>
         /\ pc = "errorShot"
         /\ \A j \in 1..Len(candidates) : ~C18_Qualifies(candidates[j])

\* C18 (as stated): clickReplyButtonByLabel clicks the first qualifying
\* candidate and returns true, or clicks nothing and returns false; in the
\* latter case the item ends as failed with a screenshot and a closed page.
C18_SubmitSelection ==
  /\ C18_FirstMatch
  /\ (script = "dispatcher" /\ item.submitted = "notFound" /\ BetweenItems) =>
       /\ ~CrashedInItem
       /\ item.shots >= 1 /\ item.closed = 1 /\ openPages = 0
       /\ Len(outcomes) = Len(invoked) /\ Last(outcomes) = FALSE

\* the line contains status/<digits>
C19_WellFormed(line) ==
  \E k \in 1..Len(line) :
    k + 2 <= Len(line) /\ line[k] = "status" /\ line[k+1] = "/" /\ line[k+2] \in Digits

\* C19: an attempt on a line without status/<digits> has returned false with
\* no page opened, no navigation and no screenshot, and main goes through the
\* pause to the next item; on any other line the page navigated to is
\* https://x.com/i/web/status/ followed by the digits after the first status/.
C19_MalformedLine ==
  (script = "dispatcher" /\ Len(invoked) >= 1) =>
    LET line == Last(invoked) IN
    IF ~C19_WellFormed(line)
    THEN /\ item = NoItem /\ openPages = 0
         /\ Len(outcomes) = Len(invoked) /\ Last(outcomes) = FALSE
         /\ pc \in { "pace", "delay", "next", "done", "crashed" }
         /\ pc \in { "pace", "delay" } => itemIdx = Len(invoked)
         /\ pc \in { "next", "done", "crashed" } =>
              itemIdx = Len(invoked) + 1 /\ pauses = Len(invoked)
         /\ pc \in { "done", "crashed" } => itemIdx > Len(tweetUrls)
    ELSE item.url # << >> =>
           \E k \in 1..Len(line) : \E e \in k..Len(line) :
             /\ line[k] = "status" /\ line[k+1] = "/" /\ k + 2 <= e
             /\ \A j \in 1..(k-1) : ~(j + 2 <= Len(line) /\ line[j] = "status"
                                       /\ line[j+1] = "/" /\ line[j+2] \in Digits)
             /\ \A j \in (k+2)..e : line[j] \in Digits
             /\ e = Len(line) \/ line[e+1] \notin Digits
             /\ item.url = << "https://x.com", "/", "i", "/", "web", "/", "status", "/" >>
                             \o SubSeq(line, k + 2, e)

C19_Witness ==
  /\ script = "dispatcher" /\ Len(invoked) = 2
  /\ invoked[1] = ProfileHref /\ outcomes[1] = FALSE
  /\ invoked[2] = PhotoHref(2)
  /\ item.url = << "https://x.com", "/", "i", "/", "web", "/", "status", "/", "1", "0", "2" >>

====
